---- MODULE Spec2Model ----
(***************************************************************************)
(* Model of the intersection controller of src/traffic_controller.py.      *)
(*                                                                         *)
(* One step of the model is one pass of the `while True` loop of main()    *)
(* (a tick): the clock is read, the button and the detection file are      *)
(* sampled, the requests are latched and the phase state machine is run,   *)
(* set_lights included.  Time is counted in half seconds, the coarsest     *)
(* unit in which every timing parameter of the source is a whole number    *)
(* (SIDE_GAP_TIME = 2.5 s = 5 units).                                      *)
(***************************************************************************)
EXTENDS Integers, Naturals, Sequences, FiniteSets, TLC

(* ------------------------------------------------------------------ *)
(* Timing parameters, in half seconds.                                  *)
(* ------------------------------------------------------------------ *)
MIN_MAIN_GREEN == 10

MAIN_YELLOW_TIME == 4

ALL_RED_TIME == 4

SIDE_PED_TIME == 16

SIDE_MIN_GREEN == 8

SIDE_MAX_GREEN == 30

SIDE_GAP_TIME == 5

DETECTION_DELAY == 2

(* ------------------------------------------------------------------ *)
(* Bounds of the model.                                                 *)
(* ------------------------------------------------------------------ *)
\* The clock reading at startup (time.time() at line 95); it is later than
\* the initial last_car_seen_time = 0.0 by more than SIDE_GAP_TIME.
T0 == 6

\* Ticks are taken while the clock reads at most T0 + Horizon.
Horizon == 52

\* The clock advances by at most MaxStep between two consecutive ticks.
MaxStep == 2

MaxTime == T0 + Horizon

\* car_first_seen_time = None
None == -1

Phases ==
  {"MAIN_GREEN", "MAIN_YELLOW", "ALL_RED_1", "SIDE_GREEN", "SIDE_YELLOW", "ALL_RED_2"}

\* The detection file as a read finds it: whether the path exists, the
\* exception that open() or read() raises ("none" when they succeed), and the
\* characters that read() returns.
File(exists, error, content) ==
  [exists |-> exists, error |-> error, content |-> content]

MissingFile == File(FALSE, "none", <<>>)

UnreadableFile == File(TRUE, "IOError", <<>>)

StatusFile(content) == File(TRUE, "none", content)

\* What the detection file can look like when the controller samples it.
FileStates == {MissingFile, UnreadableFile, StatusFile(<<"0">>), StatusFile(<<"1">>)}

VARIABLES
  pc,                   \* "loop": inside while True; "done": after finally
  now,                  \* the latest reading of time.time()
  state,
  state_start_time,
  car_first_seen_time,
  last_car_seen_time,
  req_pedestrian,
  req_car,
  lights,               \* the six values last written by set_lights
  \* history of the run, read by the properties only
  phase_entered_at,     \* clock reading of the tick that entered the phase
  green_ended_at,       \* clock reading of the tick that ended the last green
  present_since,        \* first tick of the unbroken run of presence, or None
  latched,              \* the two request flags after input processing
  pressed_since_close,  \* button sampled pressed after SIDE_GREEN last closed
  ped_latched_at,       \* clock reading of the tick that latched req_pedestrian
  \* the detection file and the two processes that share it
  fs,                   \* /tmp: the inode at the shared path, inode contents
  det,                  \* the detector process of src/yolo_detect.py
  rdr                   \* the call of read_yolo_car_present in progress

vars ==
  <<pc, now, state, state_start_time, car_first_seen_time, last_car_seen_time,
    req_pedestrian, req_car, lights, phase_entered_at, green_ended_at,
    present_since, latched, pressed_since_close, ped_latched_at, fs, det, rdr>>

\* What a pass of the controller loop leaves alone unless stated otherwise.
file_vars == <<fs, det, rdr>>

\* The controller process.
ctl_vars ==
  <<pc, now, state, state_start_time, car_first_seen_time, last_car_seen_time,
    req_pedestrian, req_car, lights, phase_entered_at, green_ended_at,
    present_since, latched, pressed_since_close, ped_latched_at>>

(* ------------------------------------------------------------------ *)
(* Helpers of the source.                                               *)
(* ------------------------------------------------------------------ *)
\* The six outputs in the order main R, Y, G, side R, Y, G.
set_lights(mr, my, mg, sr, sy, sg) == <<mr, my, mg, sr, sy, sg>>

\* str.strip(): whitespace is removed at both ends.
Whitespace == {" ", "\n"}

RECURSIVE lstrip(_)
lstrip(s) ==
  IF Len(s) > 0 /\ Head(s) \in Whitespace THEN lstrip(Tail(s)) ELSE s

RECURSIVE rstrip(_)
rstrip(s) ==
  IF Len(s) > 0 /\ s[Len(s)] \in Whitespace
    THEN rstrip(SubSeq(s, 1, Len(s) - 1))
    ELSE s

strip(s) == rstrip(lstrip(s))

\* Variant: only IOError is handled.
Caught_IOErrorOnly == {"IOError"}

\* except (IOError, ValueError)
Caught == {"IOError", "ValueError"}

\* The call does not return: open() or read() raised an exception that the
\* except clause does not name.
read_yolo_raises(file) ==
  file.exists /\ file.error # "none" /\ file.error \notin Caught

read_yolo_car_present(file) ==
  IF ~file.exists THEN FALSE
  ELSE IF file.error # "none" THEN FALSE
  ELSE strip(file.content) = <<"1">>

\* The controller's variables as one value.
Ctl ==
  [state |-> state,
   state_start_time |-> state_start_time,
   car_first_seen_time |-> car_first_seen_time,
   last_car_seen_time |-> last_car_seen_time,
   req_pedestrian |-> req_pedestrian,
   req_car |-> req_car,
   lights |-> lights]

(* ------------------------------------------------------------------ *)
(* Input processing.                                                    *)
(* ------------------------------------------------------------------ *)
\* Variant: the button is latched in MAIN_GREEN only, as the detection is.
CheckButton_MainOnly(c, button) ==
  IF button /\ ~c.req_pedestrian /\ c.state = "MAIN_GREEN"
    THEN [c EXCEPT !.req_pedestrian = TRUE]
    ELSE c

CheckButton(c, button) ==
  IF button /\ ~c.req_pedestrian
    THEN [c EXCEPT !.req_pedestrian = TRUE]
    ELSE c

\* Whether the tick prints "[EVENT] Pedestrian Button Pressed".
ButtonEvent(c, button) == button /\ ~c.req_pedestrian

\* Variant: the confirmation timer is not reset when the object is lost.
CheckYolo_NoReset(c, t, is_car_present) ==
  IF is_car_present
    THEN LET c1 == [c EXCEPT !.last_car_seen_time = t] IN
         IF c1.car_first_seen_time = None
           THEN [c1 EXCEPT !.car_first_seen_time = t]
           ELSE IF (t - c1.car_first_seen_time) >= DETECTION_DELAY
                     /\ ~c1.req_car /\ c1.state = "MAIN_GREEN"
                  THEN [c1 EXCEPT !.req_car = TRUE]
                  ELSE c1
    ELSE c

\* Variant: a stable detection arms the request in every phase.
CheckYolo_AnyPhase(c, t, is_car_present) ==
  IF is_car_present
    THEN LET c1 == [c EXCEPT !.last_car_seen_time = t] IN
         IF c1.car_first_seen_time = None
           THEN [c1 EXCEPT !.car_first_seen_time = t]
           ELSE IF (t - c1.car_first_seen_time) >= DETECTION_DELAY /\ ~c1.req_car
                  THEN [c1 EXCEPT !.req_car = TRUE]
                  ELSE c1
    ELSE [c EXCEPT !.car_first_seen_time = None]

CheckYolo(c, t, is_car_present) ==
  IF is_car_present
    THEN LET c1 == [c EXCEPT !.last_car_seen_time = t] IN
         IF c1.car_first_seen_time = None
           THEN [c1 EXCEPT !.car_first_seen_time = t]
           ELSE IF (t - c1.car_first_seen_time) >= DETECTION_DELAY
                     /\ ~c1.req_car /\ c1.state = "MAIN_GREEN"
                  THEN [c1 EXCEPT !.req_car = TRUE]
                  ELSE c1
    ELSE [c EXCEPT !.car_first_seen_time = None]

(* ------------------------------------------------------------------ *)
(* The state machine, one operator per branch.  t is `now`, tis is      *)
(* time_in_state, computed before input processing.                     *)
(* ------------------------------------------------------------------ *)
Switch(c, t, next, out) ==
  [c EXCEPT !.state = next, !.state_start_time = t, !.lights = out]

\* Variant: `or` in place of `and` in the guard.
MainGreenStep_Or(c, t, tis) ==
  IF (c.req_pedestrian \/ c.req_car) \/ tis >= MIN_MAIN_GREEN
    THEN Switch(c, t, "MAIN_YELLOW", set_lights(0, 1, 0, 1, 0, 0))
    ELSE c

\* Variant: `>` in place of `>=` in the guard.
MainGreenStep_Strict(c, t, tis) ==
  IF (c.req_pedestrian \/ c.req_car) /\ tis > MIN_MAIN_GREEN
    THEN Switch(c, t, "MAIN_YELLOW", set_lights(0, 1, 0, 1, 0, 0))
    ELSE c

\* Variant: only the pedestrian request ends the main green.
MainGreenStep_PedOnly(c, t, tis) ==
  IF c.req_pedestrian /\ tis >= MIN_MAIN_GREEN
    THEN Switch(c, t, "MAIN_YELLOW", set_lights(0, 1, 0, 1, 0, 0))
    ELSE c

MainGreenStep(c, t, tis) ==
  IF (c.req_pedestrian \/ c.req_car) /\ tis >= MIN_MAIN_GREEN
    THEN Switch(c, t, "MAIN_YELLOW", set_lights(0, 1, 0, 1, 0, 0))
    ELSE c

\* Variant: the transition leaves state_start_time as it was.
MainYellowStep_NoRestart(c, t, tis) ==
  IF tis >= MAIN_YELLOW_TIME
    THEN [c EXCEPT !.state = "ALL_RED_1",
                   !.lights = set_lights(1, 0, 0, 1, 0, 0)]
    ELSE c

MainYellowStep(c, t, tis) ==
  IF tis >= MAIN_YELLOW_TIME
    THEN Switch(c, t, "ALL_RED_1", set_lights(1, 0, 0, 1, 0, 0))
    ELSE c

\* Variant: the transition does not call set_lights.
AllRed1Step_NoLights(c, t, tis) ==
  IF tis >= ALL_RED_TIME
    THEN [c EXCEPT !.state = "SIDE_GREEN", !.state_start_time = t]
    ELSE c

AllRed1Step(c, t, tis) ==
  IF tis >= ALL_RED_TIME
    THEN Switch(c, t, "SIDE_GREEN", set_lights(1, 0, 0, 0, 0, 1))
    ELSE c

\* Variant: side green is left on when side yellow is switched on.
SideGreenStep_GreenLeftOn(c, t, tis) ==
  LET min_duration == IF c.req_pedestrian THEN SIDE_PED_TIME ELSE SIDE_MIN_GREEN
      time_since_last_car == t - c.last_car_seen_time
      hold_for_min_time == tis < min_duration
      hold_for_car_gap == time_since_last_car < SIDE_GAP_TIME
      time_to_close == (~hold_for_min_time /\ ~hold_for_car_gap)
                       \/ tis >= SIDE_MAX_GREEN
  IN IF time_to_close
       THEN [Switch(c, t, "SIDE_YELLOW", set_lights(1, 0, 0, 0, 1, 1))
               EXCEPT !.req_pedestrian = FALSE, !.req_car = FALSE]
       ELSE c

\* Variant: the phase closes as soon as either hold is released.
SideGreenStep_EitherHold(c, t, tis) ==
  LET min_duration == IF c.req_pedestrian THEN SIDE_PED_TIME ELSE SIDE_MIN_GREEN
      time_since_last_car == t - c.last_car_seen_time
      hold_for_min_time == tis < min_duration
      hold_for_car_gap == time_since_last_car < SIDE_GAP_TIME
      time_to_close == (~hold_for_min_time \/ ~hold_for_car_gap)
                       \/ tis >= SIDE_MAX_GREEN
  IN IF time_to_close
       THEN [Switch(c, t, "SIDE_YELLOW", set_lights(1, 0, 0, 0, 1, 0))
               EXCEPT !.req_pedestrian = FALSE, !.req_car = FALSE]
       ELSE c

\* Variant: no max-green override.
SideGreenStep_NoMax(c, t, tis) ==
  LET min_duration == IF c.req_pedestrian THEN SIDE_PED_TIME ELSE SIDE_MIN_GREEN
      time_since_last_car == t - c.last_car_seen_time
      hold_for_min_time == tis < min_duration
      hold_for_car_gap == time_since_last_car < SIDE_GAP_TIME
      time_to_close == ~hold_for_min_time /\ ~hold_for_car_gap
  IN IF time_to_close
       THEN [Switch(c, t, "SIDE_YELLOW", set_lights(1, 0, 0, 0, 1, 0))
               EXCEPT !.req_pedestrian = FALSE, !.req_car = FALSE]
       ELSE c

\* Variant: only the pedestrian request is reset when the phase closes.
SideGreenStep_KeepCar(c, t, tis) ==
  LET min_duration == IF c.req_pedestrian THEN SIDE_PED_TIME ELSE SIDE_MIN_GREEN
      time_since_last_car == t - c.last_car_seen_time
      hold_for_min_time == tis < min_duration
      hold_for_car_gap == time_since_last_car < SIDE_GAP_TIME
      time_to_close == (~hold_for_min_time /\ ~hold_for_car_gap)
                       \/ tis >= SIDE_MAX_GREEN
  IN IF time_to_close
       THEN [Switch(c, t, "SIDE_YELLOW", set_lights(1, 0, 0, 0, 1, 0))
               EXCEPT !.req_pedestrian = FALSE]
       ELSE c

\* Variant: the minimum duration is SIDE_MIN_GREEN whatever the requests.
SideGreenStep_CarMinOnly(c, t, tis) ==
  LET min_duration == SIDE_MIN_GREEN
      time_since_last_car == t - c.last_car_seen_time
      hold_for_min_time == tis < min_duration
      hold_for_car_gap == time_since_last_car < SIDE_GAP_TIME
      time_to_close == (~hold_for_min_time /\ ~hold_for_car_gap)
                       \/ tis >= SIDE_MAX_GREEN
  IN IF time_to_close
       THEN [Switch(c, t, "SIDE_YELLOW", set_lights(1, 0, 0, 0, 1, 0))
               EXCEPT !.req_pedestrian = FALSE, !.req_car = FALSE]
       ELSE c

SideGreenStep(c, t, tis) ==
  LET min_duration == IF c.req_pedestrian THEN SIDE_PED_TIME ELSE SIDE_MIN_GREEN
      time_since_last_car == t - c.last_car_seen_time
      hold_for_min_time == tis < min_duration
      hold_for_car_gap == time_since_last_car < SIDE_GAP_TIME
      time_to_close == (~hold_for_min_time /\ ~hold_for_car_gap)
                       \/ tis >= SIDE_MAX_GREEN
  IN IF time_to_close
       THEN [Switch(c, t, "SIDE_YELLOW", set_lights(1, 0, 0, 0, 1, 0))
               EXCEPT !.req_pedestrian = FALSE, !.req_car = FALSE]
       ELSE c

SideYellowStep(c, t, tis) ==
  IF tis >= MAIN_YELLOW_TIME
    THEN Switch(c, t, "ALL_RED_2", set_lights(1, 0, 0, 1, 0, 0))
    ELSE c

AllRed2Step(c, t, tis) ==
  IF tis >= ALL_RED_TIME
    THEN Switch(c, t, "MAIN_GREEN", set_lights(0, 0, 1, 1, 0, 0))
    ELSE c

\* Variant: the branches are separate `if`s instead of one if/elif chain, so
\* a phase entered in a tick is examined again in the same tick.
StateMachine_Fallthrough(c, t, tis) ==
  LET a == IF c.state = "MAIN_GREEN"  THEN MainGreenStep(c, t, tis)  ELSE c
      b == IF a.state = "MAIN_YELLOW" THEN MainYellowStep(a, t, tis) ELSE a
      d == IF b.state = "ALL_RED_1"   THEN AllRed1Step(b, t, tis)    ELSE b
      e == IF d.state = "SIDE_GREEN"  THEN SideGreenStep(d, t, tis)  ELSE d
      f == IF e.state = "SIDE_YELLOW" THEN SideYellowStep(e, t, tis) ELSE e
  IN IF f.state = "ALL_RED_2" THEN AllRed2Step(f, t, tis) ELSE f

StateMachine(c, t, tis) ==
  CASE c.state = "MAIN_GREEN"  -> MainGreenStep(c, t, tis)
    [] c.state = "MAIN_YELLOW" -> MainYellowStep(c, t, tis)
    [] c.state = "ALL_RED_1"   -> AllRed1Step(c, t, tis)
    [] c.state = "SIDE_GREEN"  -> SideGreenStep(c, t, tis)
    [] c.state = "SIDE_YELLOW" -> SideYellowStep(c, t, tis)
    [] c.state = "ALL_RED_2"   -> AllRed2Step(c, t, tis)
    [] OTHER -> c

(* ------------------------------------------------------------------ *)
(* The program.                                                         *)
(* ------------------------------------------------------------------ *)
\* Variant: the time in the phase taken as a distance, abs(now - start).
time_in_state_abs(t, start) == IF t >= start THEN t - start ELSE start - t

time_in_state(t, start) == t - start

\* main() up to the `try`: phase MAIN_GREEN, its lights written.
\* /tmp before the detector has written anything: nothing at the shared
\* path, no inode in use.
NoFiles == [path |-> 0, used |-> 0, data |-> <<>>]

\* The detector before its first frame.
DetInit ==
  [pc |-> "frame", frame |-> <<>>, car_detected |-> FALSE, content |-> "0",
   tmp |-> 0, final |-> FALSE, writes |-> 0, finished |-> {}]

\* No read yet.
NoRead == File(FALSE, "unread", <<>>)

RdrInit == [pc |-> "exists", fd |-> 0, file |-> NoRead]

Init ==
  /\ pc = "loop"
  /\ now = T0
  /\ state = "MAIN_GREEN"
  /\ state_start_time = T0
  /\ car_first_seen_time = None
  /\ last_car_seen_time = 0
  /\ req_pedestrian = FALSE
  /\ req_car = FALSE
  /\ lights = set_lights(0, 0, 1, 1, 0, 0)
  /\ phase_entered_at = T0
  /\ green_ended_at = None
  /\ present_since = None
  /\ latched = [ped |-> FALSE, car |-> FALSE]
  /\ pressed_since_close = FALSE
  /\ ped_latched_at = None
  /\ fs = NoFiles
  /\ det = DetInit
  /\ rdr = RdrInit

\* One pass of the loop with the clock reading t, the button sample and the
\* detection file as found.
Tick(t, button, file) ==
  \E is_car_present \in {read_yolo_car_present(file)} :
  \E c2 \in {CheckYolo(CheckButton(Ctl, button), t, is_car_present)} :
  \E c3 \in {StateMachine(c2, t, time_in_state(t, state_start_time))} :
  \E moved \in {c3.state # state} :
     /\ pc = "loop"
     /\ now' = t
     /\ state' = c3.state
     /\ state_start_time' = c3.state_start_time
     /\ car_first_seen_time' = c3.car_first_seen_time
     /\ last_car_seen_time' = c3.last_car_seen_time
     /\ req_pedestrian' = c3.req_pedestrian
     /\ req_car' = c3.req_car
     /\ lights' = c3.lights
     /\ phase_entered_at' = IF moved THEN t ELSE phase_entered_at
     /\ green_ended_at' =
          IF moved /\ state \in {"MAIN_GREEN", "SIDE_GREEN"} THEN t
          ELSE IF moved /\ c3.state \in {"MAIN_GREEN", "SIDE_GREEN"} THEN None
          ELSE green_ended_at
     /\ present_since' =
          IF ~is_car_present THEN None
          ELSE IF present_since = None THEN t
          ELSE present_since
     /\ latched' = [ped |-> c2.req_pedestrian, car |-> c2.req_car]
     /\ pressed_since_close' =
          IF moved /\ state = "SIDE_GREEN" THEN FALSE
          ELSE (pressed_since_close \/ button)
     /\ UNCHANGED pc

\* The loop body at the next clock reading.
Step ==
  \E dt \in 0..MaxStep, button \in BOOLEAN, file \in FileStates :
    /\ now + dt <= MaxTime
    /\ Tick(now + dt, button, file)
    /\ UNCHANGED <<ped_latched_at, file_vars>>

\* KeyboardInterrupt: the finally block turns every light off.
Shutdown ==
  /\ pc = "loop"
  /\ pc' = "done"
  /\ lights' = set_lights(0, 0, 0, 0, 0, 0)
  /\ UNCHANGED <<now, state, state_start_time, car_first_seen_time,
                 last_car_seen_time, req_pedestrian, req_car, phase_entered_at,
                 green_ended_at, present_since, latched, pressed_since_close,
                 ped_latched_at, file_vars>>

Next == Step \/ Shutdown

Spec == Init /\ [][Next]_vars

(* ------------------------------------------------------------------ *)
(* The pedestrian scenario: no vehicle is ever present, the button is   *)
(* first sampled pressed at 1 s, and the ticks, at any cadence, sample  *)
(* the instants 1 s, 5 s, 7 s, 9 s and 17 s after startup.              *)
(* ------------------------------------------------------------------ *)
ScenarioInstants == {T0 + 2, T0 + 10, T0 + 14, T0 + 18, T0 + 34}

AbsentFiles == {f \in FileStates : ~read_yolo_car_present(f)}

StepScenario ==
  \E dt \in 0..MaxStep, button \in BOOLEAN, file \in AbsentFiles :
    /\ now + dt <= MaxTime
    /\ \A s \in ScenarioInstants : ~(now < s /\ now + dt > s)
    /\ now + dt < T0 + 2 => ~button
    /\ now + dt = T0 + 2 => button
    /\ Tick(now + dt, button, file)
    /\ UNCHANGED <<ped_latched_at, file_vars>>

NextScenario == StepScenario \/ Shutdown

SpecScenario == Init /\ [][NextScenario]_vars

(* ------------------------------------------------------------------ *)
(* A clock that may stall or step back: time.time() is the wall clock.  *)
(* ------------------------------------------------------------------ *)
\* The clock steps back by at most MaxBack between two ticks.
MaxBack == 1

\* Ticks are taken while the clock reads at most T0 + SkewHorizon.
SkewHorizon == 27

\* The detection file as the detector leaves it.
WrittenFiles == {StatusFile(<<"0">>), StatusFile(<<"1">>)}

StepSkew ==
  \E dt \in (0 - MaxBack)..MaxStep, button \in BOOLEAN, file \in WrittenFiles :
    /\ now + dt <= T0 + SkewHorizon
    /\ now + dt >= 1
    /\ Tick(now + dt, button, file)
    /\ UNCHANGED <<ped_latched_at, file_vars>>

NextSkew == StepSkew

SpecSkew == Init /\ [][NextSkew]_vars

(* ------------------------------------------------------------------ *)
(* The loop left running: ticks keep coming (while True, sleep 0.05)    *)
(* and every tick reads a later time.                                   *)
(* ------------------------------------------------------------------ *)
\* Ticks are taken while the clock reads at most T0 + LiveHorizon.
LiveHorizon == 50

StepLive ==
  \E dt \in 1..MaxStep, button \in BOOLEAN, file \in WrittenFiles :
    /\ now + dt <= T0 + LiveHorizon
    /\ Tick(now + dt, button, file)
    /\ UNCHANGED <<ped_latched_at, file_vars>>

NextLive == StepLive

SpecLive == Init /\ [][NextLive]_vars /\ WF_vars(StepLive)

(* ------------------------------------------------------------------ *)
(* The loop stopped inside a pass: an exception (KeyboardInterrupt       *)
(* included) leaves the try block wherever it is raised, the finally     *)
(* block runs, and the exception, unless it is KeyboardInterrupt, ends   *)
(* the process.                                                          *)
(* ------------------------------------------------------------------ *)
\* Ticks are taken while the clock reads at most T0 + StopHorizon.
StopHorizon == 30

\* The outputs when set_lights(new) is left after k of its six writes.
PartlySet(old, new, k) == [i \in 1..6 |-> IF i <= k THEN new[i] ELSE old[i]]

StepStop ==
  \E dt \in 1..MaxStep, button \in BOOLEAN, file \in WrittenFiles :
    /\ now + dt <= T0 + StopHorizon
    /\ Tick(now + dt, button, file)
    /\ UNCHANGED <<ped_latched_at, file_vars>>

\* An exception raised inside a pass: while the inputs are sampled, after the
\* input processing, or by one of the six writes of the set_lights call of a
\* transition (state and state_start_time are assigned before it, the reset
\* of the requests comes after it).
Raise ==
  \E dt \in 1..MaxStep, button \in BOOLEAN, file \in WrittenFiles :
  \E t \in {now + dt} :
  \E c2 \in {CheckYolo(CheckButton(Ctl, button), t, read_yolo_car_present(file))} :
  \E c3 \in {StateMachine(c2, t, time_in_state(t, state_start_time))} :
  \E at \in {"input", "machine"} \cup (IF c3.state # state THEN {"set_lights"} ELSE {}) :
  \E k \in (IF at = "set_lights" THEN 0..5 ELSE {0}) :
    /\ pc = "loop"
    /\ t <= T0 + StopHorizon
    /\ pc' = "raised"
    /\ now' = t
    /\ req_pedestrian' = IF at = "input" THEN req_pedestrian ELSE c2.req_pedestrian
    /\ req_car' = IF at = "input" THEN req_car ELSE c2.req_car
    /\ car_first_seen_time' =
         IF at = "input" THEN car_first_seen_time ELSE c2.car_first_seen_time
    /\ last_car_seen_time' =
         IF at = "input" THEN last_car_seen_time ELSE c2.last_car_seen_time
    /\ state' = IF at = "set_lights" THEN c3.state ELSE state
    /\ state_start_time' = IF at = "set_lights" THEN t ELSE state_start_time
    /\ lights' =
         IF at = "set_lights" THEN PartlySet(lights, c3.lights, k) ELSE lights
    /\ UNCHANGED <<phase_entered_at, green_ended_at, present_since, latched,
                   pressed_since_close, ped_latched_at, file_vars>>

\* Variant: the finally block leaves the outputs as they are.
Finally_NoLightsOff ==
  /\ pc = "raised"
  /\ pc' = "failed"
  /\ UNCHANGED <<now, state, state_start_time, car_first_seen_time,
                 last_car_seen_time, req_pedestrian, req_car, lights,
                 phase_entered_at, green_ended_at, present_since, latched,
                 pressed_since_close, ped_latched_at, file_vars>>

\* The finally block after an exception: every light off, then the process
\* ends.
Finally ==
  /\ pc = "raised"
  /\ pc' = "failed"
  /\ lights' = set_lights(0, 0, 0, 0, 0, 0)
  /\ UNCHANGED <<now, state, state_start_time, car_first_seen_time,
                 last_car_seen_time, req_pedestrian, req_car, phase_entered_at,
                 green_ended_at, present_since, latched, pressed_since_close,
                 ped_latched_at, file_vars>>

NextStop == StepStop \/ Shutdown \/ Raise \/ Finally

SpecStop == Init /\ [][NextStop]_vars

(* ------------------------------------------------------------------ *)
(* The detection file in any condition: missing, failing to be read, or *)
(* holding any short text.                                              *)
(* ------------------------------------------------------------------ *)
\* The longest text of the detection file.
MaxLen == 2

\* Ticks are taken while the clock reads at most T0 + ReadHorizon.
ReadHorizon == 12

Chars == {"0", "1", " ", "\n"}

Contents == UNION {[1..n -> Chars] : n \in 0..MaxLen}

\* What a failing open() or read() raises: an OSError (IOError is its alias)
\* or a UnicodeDecodeError (a ValueError).
ReadErrors == {"IOError", "ValueError"}

FileConditions ==
  {MissingFile} \cup {File(TRUE, e, <<>>) : e \in ReadErrors}
                \cup {StatusFile(c) : c \in Contents}

\* A pass of the loop on any file condition; an exception that leaves
\* read_yolo_car_present leaves the loop, and the finally block ends the run.
StepRead ==
  \E dt \in 1..MaxStep, button \in BOOLEAN, file \in FileConditions :
    /\ now + dt <= T0 + ReadHorizon
    /\ IF read_yolo_raises(file)
         THEN /\ pc = "loop"
              /\ pc' = "failed"
              /\ now' = now + dt
              /\ lights' = set_lights(0, 0, 0, 0, 0, 0)
              /\ UNCHANGED <<state, state_start_time, car_first_seen_time,
                             last_car_seen_time, req_pedestrian, req_car,
                             phase_entered_at, green_ended_at, present_since,
                             latched, pressed_since_close>>
         ELSE Tick(now + dt, button, file)
    /\ rdr' = [rdr EXCEPT !.file = file]
    /\ UNCHANGED <<ped_latched_at, fs, det>>

NextRead == StepRead

SpecRead == Init /\ [][NextRead]_vars

(* ------------------------------------------------------------------ *)
(* The loop with the tick that latched the pedestrian request on record. *)
(* ------------------------------------------------------------------ *)
\* Ticks are taken while the clock reads at most T0 + PedHorizon.
PedHorizon == 36

StepPed ==
  \E dt \in 1..MaxStep, button \in BOOLEAN, file \in WrittenFiles :
    /\ now + dt <= T0 + PedHorizon
    /\ Tick(now + dt, button, file)
    /\ ped_latched_at' =
         IF ButtonEvent(Ctl, button) THEN now + dt
         ELSE IF req_pedestrian THEN ped_latched_at
         ELSE None
    /\ UNCHANGED file_vars

NextPed == StepPed

SpecPed == Init /\ [][NextPed]_vars

(* ------------------------------------------------------------------ *)
(* The detector of src/yolo_detect.py and read_yolo_car_present as two  *)
(* processes on the shared file, one system call at a time.             *)
(* ------------------------------------------------------------------ *)
\* The detector handles at most MaxWrites frames before it stops.
MaxWrites == 3

\* A frame has at most MaxBoxes detected boxes.
MaxBoxes == 2

VEHICLE_CLASSES == <<2, 3, 5, 7, 46>>

\* The classes of the boxes of a frame: 0 is a person, 46 a banana.
ClassIds == {0, 2, 3, 5, 7, 46}

Frames == UNION {[1..n -> ClassIds] : n \in 0..MaxBoxes}

\* cls_id in VEHICLE_CLASSES
InList(x, l) == \E i \in 1..Len(l) : l[i] = x

\* The loop over the boxes of a frame, from box i on.
RECURSIVE scan_boxes(_, _)
scan_boxes(boxes, i) ==
  IF i > Len(boxes) THEN FALSE
  ELSE IF InList(boxes[i], VEHICLE_CLASSES) THEN TRUE
  ELSE scan_boxes(boxes, i + 1)

status_content(detected) == IF detected THEN "1" ELSE "0"

\* Variant: the status is written into the shared file itself.
write_target_InPlace(f) == IF f.path # 0 THEN f.path ELSE f.used + 1

\* NamedTemporaryFile: a new file, which no path but its own names.
write_target(f) == f.used + 1

\* A status file left at the shared path by an earlier run of the detector.
StaleFile == [path |-> 1, used |-> 1, data |-> << <<"0">> >>]

InitFile ==
  /\ pc = "loop"
  /\ now = T0
  /\ state = "MAIN_GREEN"
  /\ state_start_time = T0
  /\ car_first_seen_time = None
  /\ last_car_seen_time = 0
  /\ req_pedestrian = FALSE
  /\ req_car = FALSE
  /\ lights = set_lights(0, 0, 1, 1, 0, 0)
  /\ phase_entered_at = T0
  /\ green_ended_at = None
  /\ present_since = None
  /\ latched = [ped |-> FALSE, car |-> FALSE]
  /\ pressed_since_close = FALSE
  /\ ped_latched_at = None
  /\ \E stale \in BOOLEAN :
       /\ fs = IF stale THEN StaleFile ELSE NoFiles
       /\ det = [DetInit EXCEPT !.finished = IF stale THEN {<<"0">>} ELSE {}]
  /\ rdr = RdrInit

\* cap.read(), the inference and the loop over the boxes.
DetFrame ==
  \E frame \in Frames :
    /\ det.pc = "frame"
    /\ det.writes < MaxWrites
    /\ det' = [det EXCEPT !.pc = "create",
                          !.frame = frame,
                          !.car_detected = scan_boxes(frame, 1),
                          !.content = status_content(scan_boxes(frame, 1))]
    /\ UNCHANGED <<ctl_vars, fs, rdr>>

\* The loop is left (no frame, the q key, KeyboardInterrupt): the finally
\* block calls write_status(False).
DetStop ==
  /\ det.pc = "frame"
  /\ det' = [det EXCEPT !.pc = "create",
                        !.frame = <<>>,
                        !.car_detected = FALSE,
                        !.final = TRUE,
                        !.content = status_content(FALSE)]
  /\ UNCHANGED <<ctl_vars, fs, rdr>>

\* write_status: the file to write into is opened, empty.
DetCreate ==
  \E tmp \in {write_target(fs)} :
    /\ det.pc = "create"
    /\ det' = [det EXCEPT !.pc = "write", !.tmp = tmp]
    /\ fs' = IF tmp > fs.used
               THEN [fs EXCEPT !.used = tmp, !.data = Append(fs.data, <<>>)]
               ELSE [fs EXCEPT !.data[tmp] = <<>>]
    /\ UNCHANGED <<ctl_vars, rdr>>

\* write_status: tmp.write, tmp.flush, os.fsync.
DetWrite ==
  /\ det.pc = "write"
  /\ det' = [det EXCEPT !.pc = "replace"]
  /\ fs' = [fs EXCEPT !.data[det.tmp] = <<det.content>>]
  /\ UNCHANGED <<ctl_vars, rdr>>

\* write_status: os.replace(tmp_name, SHARED_FILE_PATH).
DetReplace ==
  /\ det.pc = "replace"
  /\ det' = [det EXCEPT !.pc = IF det.final THEN "exited" ELSE "frame",
                        !.writes = det.writes + 1,
                        !.finished = det.finished \cup {<<det.content>>}]
  /\ fs' = [fs EXCEPT !.path = det.tmp]
  /\ UNCHANGED <<ctl_vars, rdr>>

\* read_yolo_car_present: os.path.exists.
RdrExists ==
  /\ rdr.pc = "exists"
  /\ rdr' = IF fs.path = 0
              THEN [rdr EXCEPT !.file = MissingFile]
              ELSE [rdr EXCEPT !.pc = "open"]
  /\ UNCHANGED <<ctl_vars, fs, det>>

\* read_yolo_car_present: open.
RdrOpen ==
  /\ rdr.pc = "open"
  /\ rdr' = IF fs.path = 0
              THEN [rdr EXCEPT !.pc = "exists", !.file = UnreadableFile]
              ELSE [rdr EXCEPT !.pc = "read", !.fd = fs.path]
  /\ UNCHANGED <<ctl_vars, fs, det>>

\* read_yolo_car_present: f.read() on the file that was opened.
RdrRead ==
  /\ rdr.pc = "read"
  /\ rdr' = [rdr EXCEPT !.pc = "exists", !.fd = 0,
                        !.file = StatusFile(fs.data[rdr.fd])]
  /\ UNCHANGED <<ctl_vars, fs, det>>

NextFile ==
  \/ DetFrame \/ DetStop \/ DetCreate \/ DetWrite \/ DetReplace
  \/ RdrExists \/ RdrOpen \/ RdrRead

SpecFile == InitFile /\ [][NextFile]_vars

(* ------------------------------------------------------------------ *)
(* Properties.                                                          *)
(* ------------------------------------------------------------------ *)
Asserted(l, i) == l[i] = 1

AtMostOne(l, i, j, k) == l[i] + l[j] + l[k] <= 1

PhaseTable(p) ==
  CASE p = "MAIN_GREEN"  -> <<0, 0, 1, 1, 0, 0>>
    [] p = "MAIN_YELLOW" -> <<0, 1, 0, 1, 0, 0>>
    [] p = "ALL_RED_1"   -> <<1, 0, 0, 1, 0, 0>>
    [] p = "SIDE_GREEN"  -> <<1, 0, 0, 0, 0, 1>>
    [] p = "SIDE_YELLOW" -> <<1, 0, 0, 0, 1, 0>>
    [] p = "ALL_RED_2"   -> <<1, 0, 0, 1, 0, 0>>

\* C2: after startup and after every tick the six outputs last written by
\* set_lights are the table entry of the current phase.
C2_LightsMatchPhase ==
  pc = "loop" => (state \in Phases /\ lights = PhaseTable(state))

\* A phase entered by a tick, with its own command on the outputs.
C2_Witness ==
  /\ pc = "loop"
  /\ state = "SIDE_GREEN"
  /\ now = phase_entered_at
  /\ lights = <<1, 0, 0, 0, 0, 1>>

\* The cyclic successor of a phase.
Succ(p) ==
  CASE p = "MAIN_GREEN"  -> "MAIN_YELLOW"
    [] p = "MAIN_YELLOW" -> "ALL_RED_1"
    [] p = "ALL_RED_1"   -> "SIDE_GREEN"
    [] p = "SIDE_GREEN"  -> "SIDE_YELLOW"
    [] p = "SIDE_YELLOW" -> "ALL_RED_2"
    [] p = "ALL_RED_2"   -> "MAIN_GREEN"

\* C3: on every tick the phase stays the same or moves to its single cyclic
\* successor; no tick takes two transitions, skips a phase or goes back.
C3_StayOrSuccessor ==
  [][state' = state \/ state' = Succ(state)]_vars

\* The whole cycle has been walked: main green entered again by a tick.
C3_Witness ==
  /\ state = "MAIN_GREEN"
  /\ phase_entered_at > T0
  /\ now = phase_entered_at

Yellows == {"MAIN_YELLOW", "SIDE_YELLOW"}

AllReds == {"ALL_RED_1", "ALL_RED_2"}

Greens == {"MAIN_GREEN", "SIDE_GREEN"}

\* C4: with a non-decreasing clock a yellow phase is held for at least
\* MAIN_YELLOW_TIME and an all-red phase for at least ALL_RED_TIME, so at
\* least MAIN_YELLOW_TIME + ALL_RED_TIME passes between the tick that ends a
\* green and the tick that starts the other green, whatever the inputs.
C4_ClearanceHeld ==
  [][/\ (state \in Yellows /\ state' # state)
          => now' - phase_entered_at >= MAIN_YELLOW_TIME
     /\ (state \in AllReds /\ state' # state)
          => now' - phase_entered_at >= ALL_RED_TIME
     /\ (state' \in Greens /\ state' # state)
          => /\ green_ended_at # None
             /\ now' - green_ended_at >= MAIN_YELLOW_TIME + ALL_RED_TIME]_vars

\* Side green started exactly MAIN_YELLOW_TIME + ALL_RED_TIME after main
\* green ended at its earliest.
C4_Witness ==
  /\ state = "SIDE_GREEN"
  /\ now = phase_entered_at
  /\ phase_entered_at = T0 + MIN_MAIN_GREEN + MAIN_YELLOW_TIME + ALL_RED_TIME

\* C5: MAIN_GREEN is left on a tick only for MAIN_YELLOW and only if, after
\* that tick's input latching, a request is set and the phase has lasted at
\* least MIN_MAIN_GREEN.
C5_MainGreenExit ==
  [][(state = "MAIN_GREEN" /\ state' # "MAIN_GREEN")
       => /\ state' = "MAIN_YELLOW"
          /\ latched'.ped \/ latched'.car
          /\ now' - phase_entered_at >= MIN_MAIN_GREEN]_vars

\* Both requests were set well before MIN_MAIN_GREEN and the phase was left
\* exactly when MIN_MAIN_GREEN had passed.
C5_Witness ==
  /\ state = "MAIN_YELLOW"
  /\ now = phase_entered_at
  /\ phase_entered_at = T0 + MIN_MAIN_GREEN
  /\ req_pedestrian /\ req_car

\* C6: SIDE_GREEN is left before SIDE_MAX_GREEN only if the phase has lasted
\* min_duration (SIDE_PED_TIME with a pedestrian request latched on that
\* tick, else SIDE_MIN_GREEN) and the vehicle was last seen at least
\* SIDE_GAP_TIME ago; entered at 9 s with the vehicle last seen at 10 s it is
\* not left before 13 s.
C6_SideGreenEarlyExit ==
  [][(state = "SIDE_GREEN" /\ state' = "SIDE_YELLOW"
        /\ now' - phase_entered_at < SIDE_MAX_GREEN)
       => /\ now' - phase_entered_at >=
               (IF latched'.ped THEN SIDE_PED_TIME ELSE SIDE_MIN_GREEN)
          /\ now' - last_car_seen_time' >= SIDE_GAP_TIME
          /\ (phase_entered_at = T0 + 18 /\ last_car_seen_time' = T0 + 20)
               => now' >= T0 + 26]_vars

\* The scenario of the claim: side green entered at 9 s on a vehicle request,
\* the vehicle last seen at 10 s, the phase closed at 13 s.
C6_Witness ==
  /\ state = "SIDE_YELLOW"
  /\ now = phase_entered_at
  /\ phase_entered_at = T0 + 26
  /\ last_car_seen_time = T0 + 20
  /\ latched.car /\ ~latched.ped

\* C7: SIDE_GREEN is left on the first tick at which it has lasted
\* SIDE_MAX_GREEN, whatever the pedestrian flag and the detection; with the
\* vehicle present on every tick since startup it is left exactly then.
C7_MaxGreenForcesExit ==
  /\ [](state = "SIDE_GREEN" => now - phase_entered_at < SIDE_MAX_GREEN)
  /\ [][(state = "SIDE_GREEN" /\ state' = "SIDE_YELLOW" /\ present_since' = T0)
          => now' - phase_entered_at >= SIDE_MAX_GREEN]_vars

\* Vehicle present on every tick since startup, side green entered at 9 s
\* and closed at 24 s.
C7_Witness ==
  /\ state = "SIDE_YELLOW"
  /\ now = phase_entered_at
  /\ phase_entered_at = T0 + 18 + SIDE_MAX_GREEN
  /\ present_since = T0

\* C8: the vehicle request is set on a tick only if the phase at the start of
\* the tick is MAIN_GREEN and the vehicle has been present on every tick of
\* an unbroken run that began at least DETECTION_DELAY before now.
C8_VehicleRequestArming ==
  [][(pc' = "loop" /\ ~req_car /\ (req_car' \/ latched'.car))
       => /\ state = "MAIN_GREEN"
          /\ present_since' # None
          /\ now' - present_since' >= DETECTION_DELAY]_vars

\* The request armed by a run of presence exactly DETECTION_DELAY long.
C8_Witness ==
  /\ state = "MAIN_GREEN"
  /\ req_car
  /\ present_since = T0
  /\ now = T0 + DETECTION_DELAY

\* C9: a request flag goes from true to false only on the tick that takes
\* SIDE_GREEN to SIDE_YELLOW, and after that tick both flags are false.
C9_ClearedOnlyAtClose ==
  [][/\ ((req_pedestrian /\ ~req_pedestrian') \/ (req_car /\ ~req_car'))
          => (state = "SIDE_GREEN" /\ state' = "SIDE_YELLOW")
     /\ (state = "SIDE_GREEN" /\ state' = "SIDE_YELLOW")
          => (~req_pedestrian' /\ ~req_car')]_vars

\* Both flags were set when SIDE_GREEN closed, and both are now false.
C9_Witness ==
  /\ state = "SIDE_YELLOW"
  /\ now = phase_entered_at
  /\ latched.ped /\ latched.car
  /\ ~req_pedestrian /\ ~req_car

\* C10 as stated: on the tick that takes ALL_RED_2 to MAIN_GREEN both request
\* flags are false, for every input sequence.
C10_NoRequestAtMainGreen ==
  [][(state = "ALL_RED_2" /\ state' = "MAIN_GREEN")
       => (~req_pedestrian' /\ ~req_car')]_vars

\* C10 as amended: both requests are cleared on the tick that takes
\* SIDE_GREEN to SIDE_YELLOW; on the tick that takes ALL_RED_2 to MAIN_GREEN
\* the vehicle request is false, and the pedestrian request is true exactly
\* when the button was sampled pressed on a tick after the one that closed
\* SIDE_GREEN.
C10_OnlyLatePressCarried ==
  [][/\ (state = "SIDE_GREEN" /\ state' = "SIDE_YELLOW")
          => (~req_pedestrian' /\ ~req_car' /\ ~pressed_since_close')
     /\ (state = "ALL_RED_2" /\ state' = "MAIN_GREEN")
          => /\ ~req_car'
             /\ req_pedestrian' <=> pressed_since_close']_vars

\* Main green entered again with a pedestrian request pressed after the
\* side green closed.
C10_Witness ==
  /\ state = "MAIN_GREEN"
  /\ phase_entered_at > T0
  /\ now = phase_entered_at
  /\ req_pedestrian
  /\ pressed_since_close

\* The guard of the transition out of phase p, as the claim's table has it,
\* read on the state a tick has left behind.
GuardHolds ==
  LET elapsed == now - phase_entered_at IN
  CASE state = "MAIN_GREEN"  -> (req_pedestrian \/ req_car) /\ elapsed >= MIN_MAIN_GREEN
    [] state = "MAIN_YELLOW" -> elapsed >= MAIN_YELLOW_TIME
    [] state = "ALL_RED_1"   -> elapsed >= ALL_RED_TIME
    [] state = "SIDE_GREEN"  ->
         \/ elapsed >= SIDE_MAX_GREEN
         \/ /\ elapsed >= (IF req_pedestrian THEN SIDE_PED_TIME ELSE SIDE_MIN_GREEN)
            /\ now - last_car_seen_time >= SIDE_GAP_TIME
    [] state = "SIDE_YELLOW" -> elapsed >= MAIN_YELLOW_TIME
    [] state = "ALL_RED_2"   -> elapsed >= ALL_RED_TIME

\* The phase the pedestrian scenario shows at clock reading t, up to the end
\* of its side yellow.
ScenarioPhase(t) ==
  IF t < T0 + 10 THEN "MAIN_GREEN"
  ELSE IF t < T0 + 14 THEN "MAIN_YELLOW"
  ELSE IF t < T0 + 18 THEN "ALL_RED_1"
  ELSE IF t < T0 + 34 THEN "SIDE_GREEN"
  ELSE "SIDE_YELLOW"

\* C11: every transition is taken on the first tick at which its guard holds
\* (no tick leaves a phase behind whose guard holds); in the pedestrian
\* scenario the phase becomes MAIN_YELLOW at 5 s, ALL_RED_1 at 7 s,
\* SIDE_GREEN at 9 s and SIDE_YELLOW at 17 s, neither earlier nor later.
C11_FirstTickOfGuard ==
  /\ pc = "loop" => ~GuardHolds
  /\ now < T0 + 34 + MAIN_YELLOW_TIME
       => /\ state = ScenarioPhase(now)
          /\ now >= T0 + 10 =>
               phase_entered_at =
                 (CHOOSE s \in ScenarioInstants \ {T0 + 2} :
                    /\ s <= now
                    /\ \A r \in ScenarioInstants \ {T0 + 2} : r <= now => r <= s)

\* The scenario has run to its side yellow, entered at 17 s after a side
\* green of exactly SIDE_PED_TIME.
C11_Witness ==
  /\ pc = "loop"
  /\ state = "SIDE_YELLOW"
  /\ now = T0 + 34
  /\ phase_entered_at = T0 + 18 + SIDE_PED_TIME
  /\ last_car_seen_time = 0

\* C12: in every phase a tick that samples the button pressed has the
\* pedestrian request set after input processing; with the request already
\* set a press changes nothing and prints no event, and an event is printed
\* exactly when the flag goes from false to true.
C12_IdempotentLatch ==
  \A button \in BOOLEAN :
    LET c1 == CheckButton(Ctl, button) IN
    /\ button => c1.req_pedestrian
    /\ req_pedestrian => (c1 = Ctl /\ ~ButtonEvent(Ctl, button))
    /\ ButtonEvent(Ctl, button) <=> (~req_pedestrian /\ c1.req_pedestrian)
    /\ [c1 EXCEPT !.req_pedestrian = req_pedestrian] = Ctl
    /\ CheckButton(c1, button) = c1

\* A press latched outside MAIN_GREEN, after the side green closed, and still
\* held while the loop runs.
C12_Witness ==
  /\ pc = "loop"
  /\ state = "ALL_RED_2"
  /\ req_pedestrian
  /\ pressed_since_close

\* C13: with a clock that stalls or steps back, every step keeps the phase
\* or moves it to its cyclic successor, no transition is taken on a tick
\* whose time in the phase is negative, and a tick on which the clock has not
\* advanced leaves a request that is set, set.
C13_SkewTolerated ==
  [][/\ (state' = state \/ state' = Succ(state))
     /\ state' # state => now' - state_start_time >= 0
     /\ (pc' = "loop" /\ now' <= now)
          => /\ req_pedestrian => req_pedestrian'
             /\ req_car => req_car']_vars

\* The clock has stepped back behind the start of the phase while a request
\* is latched.
C13_Witness ==
  /\ pc = "loop"
  /\ now < state_start_time
  /\ state = "ALL_RED_1"
  /\ req_pedestrian

\* The longest a phase lasts once entered, MAIN_GREEN left out.
MaxDuration(p) ==
  CASE p = "MAIN_YELLOW" -> MAIN_YELLOW_TIME
    [] p = "ALL_RED_1"   -> ALL_RED_TIME
    [] p = "SIDE_GREEN"  -> SIDE_MAX_GREEN
    [] p = "SIDE_YELLOW" -> MAIN_YELLOW_TIME
    [] p = "ALL_RED_2"   -> ALL_RED_TIME
    [] OTHER -> 0

\* C14: whatever the inputs, as long as ticks keep coming with an advancing
\* clock, every phase other than MAIN_GREEN is left again (a tick enters a
\* phase: now = phase_entered_at) when the clock of the model runs as far as
\* the phase's longest duration, and it is left for its successor, so that
\* MAIN_GREEN follows; MAIN_GREEN is not left before MIN_MAIN_GREEN.
C14_MainNotStarved ==
  /\ (/\ state # "MAIN_GREEN"
      /\ now > phase_entered_at
      /\ phase_entered_at + MaxDuration(state) <= T0 + LiveHorizon)
       ~> (now = phase_entered_at)
  /\ [][/\ (state' = state \/ state' = Succ(state))
        /\ (state = "MAIN_GREEN" /\ state' # "MAIN_GREEN")
             => now' - phase_entered_at >= MIN_MAIN_GREEN]_vars

\* MAIN_GREEN entered again by a tick that finds the button pressed and a
\* vehicle present.
C14_Witness ==
  /\ state = "MAIN_GREEN"
  /\ now = phase_entered_at
  /\ phase_entered_at > T0
  /\ req_pedestrian
  /\ present_since # None

\* The time after which a phase on the way to SIDE_GREEN is left when a
\* request is set.
WaitBeforeServed(p) ==
  IF p = "MAIN_GREEN" THEN MIN_MAIN_GREEN ELSE MaxDuration(p)

\* C18: as long as ticks keep coming with an advancing clock, while a request
\* flag is set every phase other than SIDE_GREEN is left again for its
\* successor (when the clock of the model runs far enough), so SIDE_GREEN is
\* active at that tick or later; and a set flag stays set until the tick that
\* closes SIDE_GREEN.
C18_RequestServed ==
  /\ (/\ req_pedestrian \/ req_car
      /\ state # "SIDE_GREEN"
      /\ now > phase_entered_at
      /\ phase_entered_at + WaitBeforeServed(state) <= T0 + LiveHorizon)
       ~> (now = phase_entered_at)
  /\ [][/\ (state' = state \/ state' = Succ(state))
        /\ ((req_pedestrian /\ ~req_pedestrian') \/ (req_car /\ ~req_car'))
             => (state = "SIDE_GREEN" /\ state' = "SIDE_YELLOW")]_vars

\* A vehicle request, the only one set, has brought the side green.
C18_Witness ==
  /\ state = "SIDE_GREEN"
  /\ now = phase_entered_at
  /\ req_car
  /\ ~req_pedestrian

\* C17: when the loop has stopped, by KeyboardInterrupt between two passes or
\* by an exception raised inside a pass, in any phase, the outputs last
\* commanded are all six off.
C17_OffAfterStop ==
  pc \in {"done", "failed"} => lights = <<0, 0, 0, 0, 0, 0>>

\* The set_lights call that closes SIDE_GREEN raised: the phase is
\* SIDE_YELLOW, the request was not reset, the process ended.
C17_Witness ==
  /\ pc = "failed"
  /\ state = "SIDE_YELLOW"
  /\ now = state_start_time
  /\ phase_entered_at < now
  /\ req_car

\* The file exists, is read without error, and its text is the character 1
\* with nothing but whitespace around it.
ReadsOne(file) ==
  /\ file.exists
  /\ file.error = "none"
  /\ \E i \in 1..Len(file.content) :
       /\ file.content[i] = "1"
       /\ \A j \in (1..Len(file.content)) \ {i} : file.content[j] \in Whitespace

\* C16: read_yolo_car_present returns true exactly when the file exists, is
\* read and its stripped text is 1; a missing file, a read failure or any
\* other text gives false without raising: the pass goes on as with no vehicle
\* present and the loop keeps running.
C16_ReadIsTotal ==
  rdr.file # NoRead =>
    /\ pc = "loop"
    /\ read_yolo_car_present(rdr.file) <=> ReadsOne(rdr.file)
    /\ (present_since # None) <=> ReadsOne(rdr.file)
    /\ ReadsOne(rdr.file) => last_car_seen_time = now
    /\ ~ReadsOne(rdr.file) => car_first_seen_time = None

\* A read that failed with a ValueError after a vehicle had been seen: the
\* pass went on as with no vehicle present.
C16_Witness ==
  /\ rdr.file = File(TRUE, "ValueError", <<>>)
  /\ pc = "loop"
  /\ car_first_seen_time = None
  /\ last_car_seen_time > 0
  /\ last_car_seen_time < now

\* C19 as stated: whenever the pedestrian request is cleared, the side
\* approach has shown green for at least SIDE_PED_TIME since the tick that
\* latched the request, also when that tick came with SIDE_GREEN already on.
C19_FullTimeSinceLatch ==
  [][(latched'.ped /\ ~req_pedestrian')
       => /\ state = "SIDE_GREEN"
          /\ now' - ped_latched_at' >= SIDE_PED_TIME
          /\ now' - phase_entered_at >= SIDE_PED_TIME]_vars

\* C19, amended: whenever the pedestrian request is cleared, SIDE_GREEN is
\* closing and has shown the side green for at least SIDE_PED_TIME since the
\* phase began; a request latched before the phase began has had that time in
\* full, a request latched during the phase only what was left of it.
C19_FullTimeSincePhaseStart ==
  [][(latched'.ped /\ ~req_pedestrian')
       => /\ state = "SIDE_GREEN"
          /\ state' = "SIDE_YELLOW"
          /\ Asserted(lights, 6)
          /\ now' - phase_entered_at >= SIDE_PED_TIME
          /\ ped_latched_at' <= phase_entered_at
               => now' - ped_latched_at' >= SIDE_PED_TIME]_vars

\* A request latched by the very tick that closes SIDE_GREEN has been cleared.
C19_Witness ==
  /\ state = "SIDE_YELLOW"
  /\ now = phase_entered_at
  /\ latched.ped
  /\ ~req_pedestrian
  /\ ped_latched_at = now

\* C15: with the detector and the reader interleaved in any way, every read
\* finds either no file or the complete single character of a write_status
\* call that has finished, never an empty or partly written status.
C15_NoPartialRead ==
  rdr.file # NoRead =>
    \/ ~rdr.file.exists
    \/ /\ rdr.file.error = "none"
       /\ Len(rdr.file.content) = 1
       /\ rdr.file.content \in det.finished

\* A read has returned the previous status while the next one is written but
\* not yet moved onto the shared path.
C15_Witness ==
  /\ rdr.file = StatusFile(<<"1">>)
  /\ det.pc = "replace"
  /\ det.content = "0"
  /\ fs.data[det.tmp] = <<"0">>
  /\ fs.path # det.tmp

\* The vehicle classes by the comment of VEHICLE_CLASSES and the docstring.
NamedVehicleClasses == {2, 3, 5, 7}

\* C20: for every frame the detector writes 1 exactly when a detected box has
\* one of the classes car, motorcycle, bus, truck, and 0 otherwise.
C20_OneIffVehicle ==
  (det.pc \in {"create", "write", "replace"} /\ ~det.final) =>
    (det.content = "1"
       <=> \E i \in 1..Len(det.frame) : det.frame[i] \in NamedVehicleClasses)

====
